---- MODULE Spec2Model ----
(***************************************************************************)
(* RemoDash terminal multiplexer: TerminalSession, TerminalManager, the    *)
(* session WebSocket endpoint and the session-key store.                   *)
(*                                                                         *)
(* The repository carries the terminal code twice: the monolithic          *)
(* src/server.py (TerminalManager registry, shared sessions) and the       *)
(* modular src/core/api/terminal.py (one private session per connection,   *)
(* termination notice, spawn diagnostic).  Spec models server.py, SpecCore *)
(* models core/api/terminal.py, SpecAuth models the key store and the      *)
(* three authenticators.                                                   *)
(***************************************************************************)
EXTENDS Integers, Sequences, FiniteSets, TLC

\* ---------------------------------------------------------------- bounds
\* number of sessions constructed (uuid4 ids, never reused)
MaxSessions == 2
\* number of sessions in the specifications that follow a single session
SoloSessions == 1
\* observers and chunks per pty where two sessions are followed side by side
PairObs == 1
PairChunks == 1
\* number of WebSocket connections opened to session endpoints
MaxObs == 2
\* number of output chunks a shell produces before it only ends
MaxChunks == 3
\* history cap: the 1000 of server.py:1722 / terminal.py:133, scaled down
HistoryCap == 2
\* number of input messages forwarded to one channel
MaxInputs == 1
\* number of times the reuse of one key is counted
MaxUses == 2
\* lifetime of a session key in seconds
TTL == 60
\* number of session keys issued
MaxKeys == 2

SessionIds == 1..MaxSessions
ObsIds == 1..MaxObs
\* descriptor numbers handed out by the OS (lowest free first); a session
\* allocates a master and a slave
FdNums == 1..(2 * MaxSessions)
\* the instants at which the clock is read: issue, just before, at and after expiry
Instants == {0, TTL - 1, TTL, TTL + 1}

VARIABLES
    os_type,        \* platform.system(): "Linux" or "Windows"
    host,           \* settings, environment and filesystem as _start finds them
    sessions,       \* every TerminalSession object ever constructed, by id
    registry,       \* TerminalManager.sessions: ids in insertion order
    events,         \* broadcast_event tasks created, in creation order
    fds,            \* OS descriptor table: fd -> pty it is the master of, 0 = free
    obs,            \* WebSocket connections to the session endpoint, by number
    sidCount,       \* ids generated so far (uuid4 never repeats)
    createResult,   \* outcome of the last create_session call
    no_auth,        \* Path("global_flags/no_auth").exists()
    REMODASH_TOKEN, \* admin token global of server.py / core/api/auth.py
    termToken,      \* REMODASH_TOKEN as bound by terminal.py's from-import
    termImported,   \* core.api.terminal has been imported
    SESSION_KEYS,   \* key -> expiry
    now,            \* time.time()
    issued,         \* history: key -> time of issue (survives the purge)
    uses,           \* history: key -> validations it passed, counted up to MaxUses
    lastAuth,       \* history: the authentication performed at this instant
    event_subscribers, \* TerminalManager.event_subscribers
    eventObs,       \* WebSocket connections to the events endpoint, by number
    eventTasks      \* the broadcast_event tasks that have started, in creation order

termVars == <<os_type, host, sessions, registry, events, fds, obs, sidCount, createResult>>
authVars == <<no_auth, REMODASH_TOKEN, termToken, termImported, SESSION_KEYS, now, issued, uses, lastAuth>>
eventVars == <<event_subscribers, eventObs, eventTasks>>
vars == <<os_type, host, sessions, registry, events, fds, obs, sidCount, createResult,
          no_auth, REMODASH_TOKEN, termToken, termImported, SESSION_KEYS, now, issued, uses, lastAuth,
          event_subscribers, eventObs, eventTasks>>

\* ---------------------------------------------------------------- values
NoToken == "None"
AdminToken == "admin"
Tokens == {NoToken, AdminToken, "bad"}
NoKey == "None"
KeyNames == {ToString(i) : i \in 1..MaxKeys}
Keys == KeyNames \cup {NoKey, "kx"}

\* one channel-read chunk: the n-th chunk produced by the shell of pty p
Chunk(p, n) == [kind |-> "out", p |-> p, n |-> n]
\* "\r\n\x1b[1;31m[Process terminated]\x1b[0m\r\n"
Notice == [kind |-> "notice", p |-> 0, n |-> 0]
\* "Error: Failed to start shell process. Please check settings.\r\n"
Diagnostic == [kind |-> "diag", p |-> 0, n |-> 0]
\* b"": end of stream or read error
Empty == [kind |-> "eof", p |-> 0, n |-> 0]

SeqToSet(q) == {q[i] : i \in 1..Len(q)}
Min(S) == CHOOSE x \in S : \A y \in S : x <= y
FreeFds(f) == {n \in FdNums : f[n] = 0}

\* ------------------------------------------------- TerminalSession (server.py)
\* self.history.append(text); if len > cap: self.history = self.history[-cap:]
AppendHistory(h, c) ==
    LET h1 == Append(h, c)
    IN  IF Len(h1) > HistoryCap
        THEN SubSeq(h1, Len(h1) - HistoryCap + 1, Len(h1))
        ELSE h1

\* a fresh set iterator over self.subscribers: it remembers the size of the set
NewIter(r) ==
    [visited |-> {}, used |-> Cardinality(r.subscribers), rm |-> {},
     start |-> r.subscribers,   \* history: the observers attached when the fan-out began
     churn |-> FALSE,           \* history: an attach or detach happened during the fan-out
     done |-> FALSE]            \* history: the for loop ran to its end

\* the for loop of _broadcast is exhausted: the failed sockets are discarded
Exhausted(r) ==
    [r EXCEPT !.subscribers = @ \ r.it.rm, !.it.done = TRUE, !.it.visited = {}, !.it.used = 0]

\* RuntimeError "Set changed size during iteration": which way the size went
RaiseCause(r) == IF Cardinality(r.subscribers) < r.it.used THEN "left" ELSE "joined"

\* TerminalSession.__init__ with the fields _start has filled in
NewSession(cwd, process, master_fd) ==
    [id |-> 0,                  \* self.id: set by the caller of the constructor
     cwd |-> cwd, cols |-> 80, rows |-> 24,
     process |-> process, master_fd |-> master_fd,
     history |-> <<>>, subscribers |-> {}, closed |-> FALSE,
     pc |-> "start",            \* reader task: start, reading, readDone, bcast, bcastNotice, exit, crashed, none
     rd |-> 0,                  \* pty the outstanding worker read is blocked on, 0 = none
     data |-> Empty,            \* result the worker handed back
     msg |-> Empty,             \* text being fanned out
     it |-> [visited |-> {}, used |-> 0, rm |-> {}, start |-> {}, churn |-> FALSE, done |-> FALSE],
     out |-> 0,                 \* chunks read so far from this session's own pty
     inlog |-> <<>>,            \* sessions whose write_input reached this pty
     winsz |-> <<0, 0>>,        \* window size the pty was told by TIOCSWINSZ
     cause |-> "none",          \* history: what first set closed
     killedWith |-> {}]         \* history: the observers attached when kill_session ran

\* TerminalSession.close on the session object
CloseSession(r, why) ==
    [r EXCEPT !.closed = TRUE,
              !.process = IF @ = "running" THEN "terminated" ELSE @,
              !.cause = IF r.closed THEN @ ELSE why]

\* TerminalSession.close on the descriptor table: os.close(self.master_fd)
\* of whatever that number now designates; an OSError is swallowed
CloseFd(r, f) ==
    IF os_type # "Windows" /\ r.master_fd # 0
    THEN [f EXCEPT ![r.master_fd] = 0]
    ELSE f

\* the pty a read issued now blocks on: _read_linux / _read_windows
ReadTarget(s, r, f) ==
    IF os_type = "Windows"
    THEN (IF r.process # "None" THEN s ELSE 0)
    ELSE (IF r.master_fd # 0 THEN f[r.master_fd] ELSE 0)

\* head of "while not self.closed": either the next read is handed to the
\* worker pool or the loop is left and close() runs
LoopHead(s, r, f) ==
    IF r.closed
    THEN [r |-> [CloseSession(r, "loop") EXCEPT !.pc = "exit"], f |-> CloseFd(r, f)]
    ELSE [r |-> [r EXCEPT !.pc = "reading", !.rd = ReadTarget(s, r, f)], f |-> f]

Commit(s, r, f, ob) ==
    /\ sessions' = [sessions EXCEPT ![s] = r]
    /\ fds' = f
    /\ obs' = ob

\* websocket.send_text succeeded: the message is on the observer's transport
Deliver(ob, o, c, via) == [ob EXCEPT ![o].recv = Append(@, [c |-> c, via |-> via])]

\* a fan-out that moves on to the next socket without sending
SendStep_Skip(s, r, f, ob) ==
    \E o \in r.subscribers \ r.it.visited :
        Commit(s, [r EXCEPT !.it.visited = @ \cup {o}], f, ob)

\* one pass of the body of "for ws in self.subscribers": the send either
\* succeeds or raises and the socket is queued for removal
SendStep(s, r, f, ob) ==
    \E o \in r.subscribers \ r.it.visited :
        IF ob[o].conn = "open"
        THEN Commit(s, [r EXCEPT !.it.visited = @ \cup {o}], f, Deliver(ob, o, r.msg, "live"))
        ELSE Commit(s, [r EXCEPT !.it.visited = @ \cup {o}, !.it.rm = @ \cup {o}], f, ob)

\* an in-place append is seen by every list iterator of the replay loops; the
\* slice assignment rebinds self.history and leaves them on the old list
Unshare(ob, s, h, c) ==
    IF Len(h) + 1 > HistoryCap
    THEN [o \in DOMAIN ob |->
            IF ob[o].pc = "replay" /\ ob[o].sess = s /\ ob[o].shared
            THEN [ob[o] EXCEPT !.shared = FALSE, !.rlist = Append(h, c)]
            ELSE ob[o]]
    ELSE ob

\* _broadcast entered: iterator created, first next() and first send
BcastBegin(s, r, f, ob) ==
    IF r.subscribers = {}
    THEN LET k == LoopHead(s, Exhausted(r), f) IN Commit(s, k.r, k.f, ob)
    ELSE SendStep(s, r, f, ob)

\* ------------------------------------------------------------ authenticators
\* the auth block of terminal_stream_ws in server.py: "4003" is the close code
GatewayAuth(flag, keys, t, admin, key, token) ==
    IF flag THEN "NO_AUTH"
    ELSE IF key # NoKey
         THEN (IF key \notin DOMAIN keys \/ t > keys[key] THEN "4003" ELSE "KEY")
         ELSE (IF admin = NoToken \/ token = NoToken \/ token # admin THEN "4003" ELSE "TOKEN")

\* verify_token without the comparison of the clock with the expiry
VerifyToken_NoExpiry(flag, keys, t, admin, key, token) ==
    IF flag THEN "NO_AUTH"
    ELSE IF key # NoKey /\ key \in DOMAIN keys THEN "SESSION_KEY_VALID"
    ELSE IF admin = NoToken \/ token = NoToken \/ token # admin THEN "401"
    ELSE "TOKEN"

\* verify_token of core/api/auth.py and server.py: what the dependency returns,
\* "401" for the HTTPException
VerifyToken(flag, keys, t, admin, key, token) ==
    IF flag THEN "NO_AUTH"
    ELSE IF key # NoKey /\ key \in DOMAIN keys /\ t < keys[key] THEN "SESSION_KEY_VALID"
    ELSE IF admin = NoToken \/ token = NoToken \/ token # admin THEN "401"
    ELSE "TOKEN"

\* a validation that consumes the key it was shown
KeysAfterValidate_SingleUse(keys, key) == [x \in DOMAIN keys \ {key} |-> keys[x]]

\* what a validation of key leaves in SESSION_KEYS: the store is only read
KeysAfterValidate(keys, key) == keys

\* an issuance that stores the key and sweeps nothing
KeysAfterIssue_NoSweep(keys, k, t) ==
    [x \in DOMAIN keys \cup {k} |-> IF x = k THEN t + TTL ELSE keys[x]]

\* create_session_token: store the key, then drop every entry that has expired
KeysAfterIssue(keys, k, t) ==
    LET k1 == [x \in DOMAIN keys \cup {k} |-> IF x = k THEN t + TTL ELSE keys[x]]
        live == {x \in DOMAIN k1 : ~(t > k1[x])}
    IN  [x \in live |-> k1[x]]

\* ------------------------------------------------------------ the host
\* shell binaries _start may name; the last three are its fallbacks, in the
\* order of the list of terminal.py
Fallbacks == <<"/bin/sh", "/system/bin/sh", "/data/data/com.termux/files/usr/bin/sh">>
ShellPaths == {"/opt/zsh", "/bin/bash"} \cup {Fallbacks[i] : i \in 1..Len(Fallbacks)}

\* settings_manager.settings, os.environ and the state of each binary:
\* "ok" spawns, "missing" does not exist, "error" exists and cannot be executed
Hosts ==
    [app : {"server", "core"},                      \* server.py, or the app that mounts core/api
     filesystem_mode : {"open", "jailed"},
     roots : BOOLEAN,                               \* an allowed root is configured
     terminal_shell : {"None", "/opt/zsh", "/bin/sh"},
     SHELL : {"None", "/bin/sh"},
     \* the Termux binary is there or is not
     status : {f \in [ShellPaths -> {"ok", "missing", "error"}] : f[Fallbacks[3]] # "error"}]

\* a default install: open filesystem, no shell configured, every binary in place
DefaultHost ==
    [app |-> "server", filesystem_mode |-> "open", roots |-> FALSE,
     terminal_shell |-> "None", SHELL |-> "None", status |-> [x \in ShellPaths |-> "ok"]]

\* directories a caller may ask for: "home" exists inside the allowed roots,
\* "gone" does not exist, "outside" exists outside every allowed root
Dirs == {"home", "gone", "outside"}

\* check_path_access: resolve() is not strict, so existence is never looked at
CheckPathAccess(h, dir) ==
    IF h.filesystem_mode = "open" THEN "ok"
    ELSE IF ~h.roots THEN "raise"
    ELSE IF dir = "outside" THEN "raise"
    ELSE "ok"

\* the cwd argument as _start sees it: "bad" when check_path_access raises,
\* "missing" when it passes a directory that does not exist
CwdOf(h, dir) ==
    IF dir = "None" THEN "None"
    ELSE IF CheckPathAccess(h, dir) = "raise" THEN "bad"
    ELSE IF dir = "gone" THEN "missing"
    ELSE "ok"

\* shell = settings.get("terminal_shell") or os.environ.get("SHELL", "/bin/bash")
Shell(h) ==
    IF h.terminal_shell # "None" THEN h.terminal_shell
    ELSE IF h.SHELL # "None" THEN h.SHELL
    ELSE "/bin/bash"

\* subprocess.Popen([path], cwd=cwd): FileNotFoundError when the binary or
\* the working directory does not exist, another OSError when it cannot run
Popen(h, path, cwd) ==
    IF cwd = "missing" \/ h.status[path] = "missing" THEN "notfound"
    ELSE IF h.status[path] = "error" THEN "error"
    ELSE "ok"

\* os.path.exists(path)
Exists(h, path) == h.status[path] # "missing"

\* the single fallback server.py settles on
Fallback(h) ==
    IF Exists(h, Fallbacks[2]) THEN Fallbacks[2]
    ELSE IF Exists(h, Fallbacks[3]) THEN Fallbacks[3]
    ELSE Fallbacks[1]

\* the spawn attempts of server.py's _start on this host
SpawnInputsOf(h, cwd) ==
    [first |-> Popen(h, Shell(h), cwd),
     fbUsable |-> Shell(h) # Fallback(h) /\ Exists(h, Fallback(h)),
     fb |-> IF Popen(h, Fallback(h), cwd) = "ok" THEN "ok" ELSE "error"]

\* the fallbacks terminal.py's _start tries: not the shell itself, and present
UsableFallbacks(h) ==
    {i \in 1..Len(Fallbacks) : Fallbacks[i] # Shell(h) /\ Exists(h, Fallbacks[i])}

\* the spawn attempts of terminal.py's _start on this host
SpawnInputsOfCore(h, cwd) ==
    [first |-> Popen(h, Shell(h), cwd),
     fbUsable |-> UsableFallbacks(h) # {},
     fb |-> IF \E i \in UsableFallbacks(h) : Popen(h, Fallbacks[i], cwd) = "ok"
            THEN "ok" ELSE "error"]

\* ------------------------------------------------------------ Spec: server.py
SpawnInputs == [first : {"ok", "notfound", "error"}, fbUsable : BOOLEAN, fb : {"ok", "error"}]
CwdInputs == {"None", "ok", "bad", "missing"}

\* the process _start ends up with on POSIX; "raise" when the exception of
\* the first Popen is not FileNotFoundError and leaves _start
StartProcess(sp) ==
    IF sp.first = "ok" THEN "running"
    ELSE IF sp.first = "error" THEN "raise"
    ELSE IF sp.fbUsable /\ sp.fb = "ok" THEN "running"
    ELSE "None"

\* the spawn attempt of the Windows branch: cmd.exe is there, the directory may not be
SpawnInputsWindows(cwd) ==
    [first |-> IF cwd = "missing" THEN "notfound" ELSE "ok", fbUsable |-> FALSE, fb |-> "error"]

\* the process _start ends up with on Windows: Popen(["cmd.exe"]) is not guarded
StartProcessWindows(sp) == IF sp.first = "ok" THEN "running" ELSE "raise"

\* check_path_access(self.cwd) raised: self.cwd = None
StartCwd(cwd) == IF cwd = "bad" THEN "None" ELSE cwd

\* TerminalManager.create_session, TerminalSession.__init__ and _start
CreateSession(cwd, sp) ==
    /\ sidCount < MaxSessions
    /\ LET sid == sidCount + 1
           master == IF os_type = "Windows" THEN 0 ELSE Min(FreeFds(fds))
           slave == IF os_type = "Windows" THEN 0 ELSE Min(FreeFds(fds) \ {master})
           proc == IF os_type = "Windows" THEN StartProcessWindows(sp) ELSE StartProcess(sp)
       IN  /\ sidCount' = sid
           /\ IF proc = "raise"
              THEN /\ createResult' = [sid |-> sid, raised |-> TRUE]
                   /\ fds' = IF os_type = "Windows" THEN fds
                             ELSE [fds EXCEPT ![master] = sid, ![slave] = sid]
                   /\ UNCHANGED <<sessions, registry, events>>
              ELSE /\ createResult' = [sid |-> sid, raised |-> FALSE]
                   /\ fds' = IF os_type = "Windows" THEN fds ELSE [fds EXCEPT ![master] = sid]
                   /\ sessions' = sessions @@
                          (sid :> [NewSession(StartCwd(cwd), proc, master) EXCEPT !.id = sid])
                   /\ registry' = Append(registry, sid)
                   /\ events' = Append(events, [type |-> "create", id |-> sid])
    /\ UNCHANGED <<os_type, host, obs>>
    /\ UNCHANGED authVars
    /\ UNCHANGED eventVars

\* the reader task gets its first turn
ReadLoopStart(s) ==
    /\ s \in DOMAIN sessions
    /\ sessions[s].pc = "start"
    /\ LET k == LoopHead(s, sessions[s], fds) IN Commit(s, k.r, k.f, obs)
    /\ UNCHANGED <<os_type, host, registry, events, sidCount, createResult>>
    /\ UNCHANGED authVars
    /\ UNCHANGED eventVars

\* the shell may still write: it was spawned and has not exited
CanProduce(p) ==
    /\ p \in DOMAIN sessions
    /\ sessions[p].process \in {"running", "terminated"}
    /\ sessions[p].out < MaxChunks

\* the read ends without data: no pty behind the descriptor, or no process
\* holds the other end any more (EIO), or the pipe is at end of file
CanEnd(p) ==
    IF p \notin DOMAIN sessions
    THEN TRUE
    ELSE sessions[p].process \in {"None", "terminated", "exited"}

\* _read_linux / _read_windows in the worker thread returns.  The thread
\* evaluates self.master_fd when it gets to run: the read is on the pty the
\* number designated when the read was issued, or on the one it designates now
WorkerRead(s) ==
    /\ s \in DOMAIN sessions
    /\ sessions[s].pc = "reading"
    /\ \E p \in {sessions[s].rd, ReadTarget(s, sessions[s], fds)} :
           \/ /\ CanProduce(p)
              /\ sessions' = [sessions EXCEPT
                    ![p].out = @ + 1,
                    ![s].pc = "readDone",
                    ![s].rd = 0,
                    ![s].data = Chunk(p, sessions[p].out + 1)]
           \/ /\ CanEnd(p)
              /\ sessions' = [sessions EXCEPT ![s].pc = "readDone", ![s].rd = 0, ![s].data = Empty]
    /\ UNCHANGED <<os_type, host, registry, events, fds, obs, sidCount, createResult>>
    /\ UNCHANGED authVars
    /\ UNCHANGED eventVars

\* _read_loop resumes with the worker's result (server.py 1714-1730)
ReadLoopResume(s) ==
    /\ s \in DOMAIN sessions
    /\ sessions[s].pc = "readDone"
    /\ LET r == sessions[s]
       IN  IF r.data = Empty
           THEN Commit(s, [CloseSession(r, "eof") EXCEPT !.pc = "exit"], CloseFd(r, fds), obs)
           ELSE LET r1 == [r EXCEPT !.history = AppendHistory(r.history, r.data),
                                    !.msg = r.data, !.data = Empty, !.pc = "bcast"]
                IN  BcastBegin(s, [r1 EXCEPT !.it = NewIter(r1)], fds, Unshare(obs, s, r.history, r.data))
    /\ UNCHANGED <<os_type, host, registry, events, sidCount, createResult>>
    /\ UNCHANGED authVars
    /\ UNCHANGED eventVars

\* _broadcast resumes after a send: next() on the set iterator raises
\* RuntimeError when the set changed size, which _read_loop catches
BroadcastResume(s) ==
    /\ s \in DOMAIN sessions
    /\ sessions[s].pc = "bcast"
    /\ LET r == sessions[s]
       IN  IF Cardinality(r.subscribers) # r.it.used
           THEN Commit(s, [CloseSession(r, RaiseCause(r)) EXCEPT !.pc = "exit"], CloseFd(r, fds), obs)
           ELSE IF r.subscribers \ r.it.visited = {}
           THEN LET k == LoopHead(s, Exhausted(r), fds)
                IN  Commit(s, k.r, k.f, obs)
           ELSE SendStep(s, r, fds, obs)
    /\ UNCHANGED <<os_type, host, registry, events, sidCount, createResult>>
    /\ UNCHANGED authVars
    /\ UNCHANGED eventVars

\* the shell process ends by itself
ChildExit(s) ==
    /\ s \in DOMAIN sessions
    /\ sessions[s].process \in {"running", "terminated"}
    /\ sessions' = [sessions EXCEPT ![s].process = "exited"]
    /\ UNCHANGED <<os_type, host, registry, events, fds, obs, sidCount, createResult>>
    /\ UNCHANGED authVars
    /\ UNCHANGED eventVars

Remove(q, x) == SelectSeq(q, LAMBDA y : y # x)

\* a kill that closes the session and leaves it in the map
KillSession_KeepsEntry(sid) ==
    /\ sid \in SeqToSet(registry)
    /\ registry' = registry
    /\ sessions' = [sessions EXCEPT ![sid] = [CloseSession(@, "kill") EXCEPT !.killedWith = sessions[sid].subscribers]]
    /\ fds' = CloseFd(sessions[sid], fds)
    /\ events' = Append(events, [type |-> "kill", id |-> sid])
    /\ UNCHANGED <<os_type, host, obs, sidCount, createResult>>
    /\ UNCHANGED authVars
    /\ UNCHANGED eventVars

\* TerminalManager.kill_session; an id that is not in the map changes nothing
KillSession(sid) ==
    /\ sid \in SeqToSet(registry)
    /\ registry' = Remove(registry, sid)
    /\ sessions' = [sessions EXCEPT ![sid] = [CloseSession(@, "kill") EXCEPT !.killedWith = sessions[sid].subscribers]]
    /\ fds' = CloseFd(sessions[sid], fds)
    /\ events' = Append(events, [type |-> "kill", id |-> sid])
    /\ UNCHANGED <<os_type, host, obs, sidCount, createResult>>
    /\ UNCHANGED authVars
    /\ UNCHANGED eventVars

\* ------------------------------------------- terminal_stream_ws (server.py)
NewObs(sess, pc, code) ==
    [sess |-> sess, pc |-> pc,  \* accepting, replay, recv, refused, done
     url |-> 0,                 \* the {sid} of the path the client connected to
     code |-> code,             \* close code of a refused connection, 0 = none
     idx |-> 0,                 \* position of the list iterator of the replay loop
     shared |-> TRUE,           \* the iterator is still on the session's current list object
     rlist |-> <<>>,            \* the list object it is on once history was rebound
     conn |-> "open",           \* transport: open, broken
     recv |-> <<>>]             \* history: the output messages the client was sent

NextObs == Cardinality(DOMAIN obs) + 1

\* inbound text frames
ResizeMsgs ==
    { [type |-> "resize", has |-> TRUE,  cols |-> 120, rows |-> 40],
      [type |-> "resize", has |-> FALSE, cols |-> 0,   rows |-> 0],
      [type |-> "resize", has |-> TRUE,  cols |-> 0,   rows |-> -1] }
OtherMsgs ==
    { [type |-> "other", has |-> FALSE, cols |-> 0, rows |-> 0],
      [type |-> "notype", has |-> FALSE, cols |-> 0, rows |-> 0] }
InputMsg == [type |-> "input", has |-> FALSE, cols |-> 0, rows |-> 0]

\* the connection arrives: auth block and get_session, up to "await accept()"
GatewayConnect(sid, key, token) ==
    /\ NextObs \in ObsIds
    /\ LET a == GatewayAuth(no_auth, SESSION_KEYS, now, REMODASH_TOKEN, key, token)
       IN  obs' = obs @@ (NextObs :>
                [(IF a = "4003" THEN NewObs(0, "refused", 4003)
                  ELSE IF sid \notin SeqToSet(registry) THEN NewObs(0, "refused", 4004)
                  ELSE NewObs(sid, "accepting", 0)) EXCEPT !.url = sid])
    /\ UNCHANGED <<os_type, host, sessions, registry, events, fds, sidCount, createResult>>
    /\ UNCHANGED authVars
    /\ UNCHANGED eventVars

\* the list the replay iterator of o walks
ReplayList(ob, o, r) == IF ob[o].shared THEN r.history ELSE ob[o].rlist

InFanOut(r) == r.pc \in {"bcast", "bcastNotice"}

\* session.subscribers.discard(websocket)
Detach(r, o) ==
    [r EXCEPT !.subscribers = @ \ {o},
              !.it.churn = @ \/ (InFanOut(r) /\ o \in r.subscribers)]

\* session.subscribers.add(websocket); behind: the new element's slot lies
\* before the cursor of the iterator of a suspended _broadcast
Attach(r, o, behind) ==
    [r EXCEPT !.subscribers = @ \cup {o},
              !.it.visited = IF behind THEN @ \cup {o} ELSE @,
              !.it.churn = @ \/ InFanOut(r)]

\* next() of "for chunk in session.history" and the send that follows; when
\* the list is exhausted the handler blocks in receive_text
ReplayNext(s, r, f, ob, o) ==
    LET L == ReplayList(ob, o, r)
    IN  IF ob[o].idx < Len(L)
        THEN IF ob[o].conn = "open"
             THEN Commit(s, r, f, [Deliver(ob, o, L[ob[o].idx + 1], "replay") EXCEPT
                                      ![o].idx = @ + 1, ![o].pc = "replay"])
             ELSE Commit(s, Detach(r, o), f, [ob EXCEPT ![o].pc = "done"])
        ELSE Commit(s, r, f, [ob EXCEPT ![o].pc = "recv"])

\* accept() returned: subscribers.add and the first pass of the replay loop.
\* An element added while _broadcast is suspended lands in a slot before or
\* after the iterator's cursor.
GatewayAccept(o) ==
    /\ o \in DOMAIN obs
    /\ obs[o].pc = "accepting"
    /\ LET s == obs[o].sess
           r == sessions[s]
       IN  IF obs[o].conn # "open"
           THEN /\ obs' = [obs EXCEPT ![o].pc = "done"]
                /\ UNCHANGED <<sessions, fds>>
           ELSE \E behind \in BOOLEAN :
                /\ behind => InFanOut(r)
                /\ ReplayNext(s, Attach(r, o, behind), fds, obs, o)
    /\ UNCHANGED <<os_type, host, registry, events, sidCount, createResult>>
    /\ UNCHANGED authVars
    /\ UNCHANGED eventVars

\* the replay loop resumes after a send
GatewayReplayResume(o) ==
    /\ o \in DOMAIN obs
    /\ obs[o].pc = "replay"
    /\ ReplayNext(obs[o].sess, sessions[obs[o].sess], fds, obs, o)
    /\ UNCHANGED <<os_type, host, registry, events, sidCount, createResult>>
    /\ UNCHANGED authVars
    /\ UNCHANGED eventVars

\* TerminalSession.write_input
WriteInput(ss, s, f) ==
    LET r == ss[s]
        p == IF os_type = "Windows"
             THEN (IF r.process \in {"running", "terminated"} THEN s ELSE 0)
             ELSE (IF r.master_fd # 0 THEN f[r.master_fd] ELSE 0)
    IN  IF r.closed \/ p = 0 \/ p \notin DOMAIN ss THEN ss
        ELSE [ss EXCEPT ![p].inlog = Append(@, s)]

\* struct.pack("HHHH", rows, cols, 0, 0) accepts unsigned 16-bit values
Packs(cols, rows) == cols \in 0..65535 /\ rows \in 0..65535

\* a resize that falls back to the constructor's 80x24 when the size cannot
\* be forwarded to the channel
Resize_DefaultsWhenNotForwarded(ss, s, f, cols, rows) ==
    LET p == IF ss[s].master_fd # 0 THEN f[ss[s].master_fd] ELSE 0
    IN  IF os_type # "Windows" /\ p # 0 /\ p \in DOMAIN ss /\ Packs(cols, rows)
        THEN [ss EXCEPT ![s].cols = cols, ![s].rows = rows, ![p].winsz = <<cols, rows>>]
        ELSE [ss EXCEPT ![s].cols = 80, ![s].rows = 24]

\* TerminalSession.resize
Resize(ss, s, f, cols, rows) ==
    LET ss1 == [ss EXCEPT ![s].cols = cols, ![s].rows = rows]
        p == IF ss[s].master_fd # 0 THEN f[ss[s].master_fd] ELSE 0
    IN  IF os_type # "Windows" /\ p # 0 /\ p \in DOMAIN ss /\ Packs(cols, rows)
        THEN [ss1 EXCEPT ![p].winsz = <<cols, rows>>]
        ELSE ss1

\* one turn of the receive loop: a text frame arrived
GatewayReceive(o, m) ==
    /\ o \in DOMAIN obs
    /\ obs[o].pc = "recv"
    /\ obs[o].conn = "open"
    /\ LET s == obs[o].sess
       IN  /\ m.type = "input" => Len(sessions[s].inlog) < MaxInputs
           /\ IF m.type = "input"
              THEN sessions' = WriteInput(sessions, s, fds) /\ UNCHANGED obs
              ELSE IF m.type = "resize"
              THEN /\ sessions' = Resize(sessions, s, fds,
                                         IF m.has THEN m.cols ELSE 80,
                                         IF m.has THEN m.rows ELSE 24)
                   /\ UNCHANGED obs
              ELSE IF m.type = "notype"
              THEN /\ sessions' = [sessions EXCEPT ![s] = Detach(@, o)]
                   /\ obs' = [obs EXCEPT ![o].pc = "done"]
              ELSE UNCHANGED <<sessions, obs>>
    /\ UNCHANGED <<os_type, host, registry, events, fds, sidCount, createResult>>
    /\ UNCHANGED authVars
    /\ UNCHANGED eventVars

\* receive_text raises WebSocketDisconnect: finally discards the socket
GatewayDisconnected(o) ==
    /\ o \in DOMAIN obs
    /\ obs[o].pc = "recv"
    /\ obs[o].conn = "broken"
    /\ sessions' = [sessions EXCEPT ![obs[o].sess] = Detach(@, o)]
    /\ obs' = [obs EXCEPT ![o].pc = "done"]
    /\ UNCHANGED <<os_type, host, registry, events, fds, sidCount, createResult>>
    /\ UNCHANGED authVars
    /\ UNCHANGED eventVars

\* the client goes away or the transport breaks
ClientDisconnect(o) ==
    /\ o \in DOMAIN obs
    /\ obs[o].pc \in {"accepting", "replay", "recv"}
    /\ obs[o].conn = "open"
    /\ obs' = [obs EXCEPT ![o].conn = "broken"]
    /\ UNCHANGED <<os_type, host, sessions, registry, events, fds, sidCount, createResult>>
    /\ UNCHANGED authVars
    /\ UNCHANGED eventVars

\* ------------------------------------------------------------ specification
InitSessions ==
    /\ sessions = <<>>
    /\ registry = <<>>
    /\ events = <<>>
    /\ fds = [n \in FdNums |-> 0]
    /\ obs = <<>>
    /\ sidCount = 0
    /\ createResult = [sid |-> 0, raised |-> FALSE]
    /\ event_subscribers = {}
    /\ eventObs = <<>>
    /\ eventTasks = <<>>

InitTerm ==
    /\ os_type = "Linux"
    /\ host = DefaultHost
    /\ InitSessions

NoAuthRecord == [op |-> "none", key |-> NoKey, token |-> NoToken, result |-> "none"]

\* the server is up: admin token loaded, authentication on, no key issued yet
Init ==
    /\ InitTerm
    /\ no_auth = FALSE
    /\ REMODASH_TOKEN = AdminToken
    /\ termToken = NoToken
    /\ termImported = TRUE
    /\ SESSION_KEYS = <<>>
    /\ now = 0
    /\ issued = <<>>
    /\ uses = [k \in KeyNames |-> 0]
    /\ lastAuth = NoAuthRecord

Next ==
    \/ \E cwd \in {"None", "bad"}, sp \in SpawnInputs : sidCount < SoloSessions /\ CreateSession(cwd, sp)
    \/ \E s \in SessionIds : ReadLoopStart(s)
    \/ \E s \in SessionIds : WorkerRead(s)
    \/ \E s \in SessionIds : ReadLoopResume(s)
    \/ \E s \in SessionIds : BroadcastResume(s)
    \/ \E s \in SessionIds : ChildExit(s)
    \/ \E s \in SessionIds : KillSession(s)
    \/ \E s \in SessionIds, key \in {NoKey, "kx"}, token \in Tokens : GatewayConnect(s, key, token)
    \/ \E o \in ObsIds : GatewayAccept(o)
    \/ \E o \in ObsIds : GatewayReplayResume(o)
    \/ \E o \in ObsIds, m \in OtherMsgs \cup {InputMsg} : GatewayReceive(o, m)
    \/ \E o \in ObsIds : GatewayDisconnected(o)
    \/ \E o \in ObsIds : ClientDisconnect(o)

Spec == Init /\ [][Next]_vars

\* ------------------------------------------------- SpecAuth: the key store
\* results that mean the session key was accepted
ByKey == {"KEY", "SESSION_KEY_VALID"}

\* history: a validation that passed by the key is counted
CountUse(u, key, result) ==
    IF result \in ByKey /\ key \in KeyNames /\ u[key] < MaxUses
    THEN [u EXCEPT ![key] = @ + 1]
    ELSE u

\* the clock is read again at a later instant
Tick(t) ==
    /\ t > now
    /\ now' = t
    /\ lastAuth' = NoAuthRecord
    /\ UNCHANGED <<no_auth, REMODASH_TOKEN, termToken, termImported, SESSION_KEYS, issued, uses>>
    /\ UNCHANGED termVars
    /\ UNCHANGED eventVars

\* toggle_auth.py creates or removes global_flags/no_auth
ToggleNoAuth ==
    /\ no_auth' = ~no_auth
    /\ lastAuth' = NoAuthRecord
    /\ UNCHANGED <<REMODASH_TOKEN, termToken, termImported, SESSION_KEYS, now, issued, uses>>
    /\ UNCHANGED termVars
    /\ UNCHANGED eventVars

\* lifespan / load_admin_token: admin_token.txt is read into the global
LoadAdminToken ==
    /\ REMODASH_TOKEN = NoToken
    /\ REMODASH_TOKEN' = AdminToken
    /\ lastAuth' = NoAuthRecord
    /\ UNCHANGED <<no_auth, termToken, termImported, SESSION_KEYS, now, issued, uses>>
    /\ UNCHANGED termVars
    /\ UNCHANGED eventVars

\* "from core.api.auth import SESSION_KEYS, REMODASH_TOKEN": terminal.py binds
\* the value the global has when the import statement runs
ImportTerminal ==
    /\ ~termImported
    /\ termImported' = TRUE
    /\ termToken' = REMODASH_TOKEN
    /\ lastAuth' = NoAuthRecord
    /\ UNCHANGED <<no_auth, REMODASH_TOKEN, SESSION_KEYS, now, issued, uses>>
    /\ UNCHANGED termVars
    /\ UNCHANGED eventVars

\* a request to an endpoint that depends on verify_token
HttpVerify(key, token) ==
    /\ LET res == VerifyToken(no_auth, SESSION_KEYS, now, REMODASH_TOKEN, key, token)
       IN  /\ lastAuth' = [op |-> "http", key |-> key, token |-> token, result |-> res]
           /\ uses' = CountUse(uses, key, res)
    /\ SESSION_KEYS' = KeysAfterValidate(SESSION_KEYS, key)
    /\ UNCHANGED <<no_auth, REMODASH_TOKEN, termToken, termImported, now, issued>>
    /\ UNCHANGED termVars
    /\ UNCHANGED eventVars

\* POST /api/session/terminal: verify_token, then create_session_token
CreateSessionToken(k, key, token) ==
    /\ k \in KeyNames \ DOMAIN issued
    /\ Cardinality(DOMAIN issued) < MaxKeys
    /\ VerifyToken(no_auth, SESSION_KEYS, now, REMODASH_TOKEN, key, token) # "401"
    /\ SESSION_KEYS' = KeysAfterIssue(KeysAfterValidate(SESSION_KEYS, key), k, now)
    /\ issued' = issued @@ (k :> now)
    /\ uses' = CountUse(uses, key, VerifyToken(no_auth, SESSION_KEYS, now, REMODASH_TOKEN, key, token))
    /\ lastAuth' = [op |-> "issue", key |-> k, token |-> token, result |-> "issued"]
    /\ UNCHANGED <<no_auth, REMODASH_TOKEN, termToken, termImported, now>>
    /\ UNCHANGED termVars
    /\ UNCHANGED eventVars

\* the auth block of terminal_stream_ws in server.py, on its own
GatewayAuthAttempt(key, token) ==
    /\ LET res == GatewayAuth(no_auth, SESSION_KEYS, now, REMODASH_TOKEN, key, token)
       IN  /\ lastAuth' = [op |-> "gateway", key |-> key, token |-> token, result |-> res]
           /\ uses' = CountUse(uses, key, res)
    /\ SESSION_KEYS' = KeysAfterValidate(SESSION_KEYS, key)
    /\ UNCHANGED <<no_auth, REMODASH_TOKEN, termToken, termImported, now, issued>>
    /\ UNCHANGED termVars
    /\ UNCHANGED eventVars

\* the auth block of terminal_stream_ws in core/api/terminal.py: the same
\* code over the module's own binding of REMODASH_TOKEN
CoreGatewayAuthAttempt(key, token) ==
    /\ termImported
    /\ LET res == GatewayAuth(no_auth, SESSION_KEYS, now, termToken, key, token)
       IN  /\ lastAuth' = [op |-> "core", key |-> key, token |-> token, result |-> res]
           /\ uses' = CountUse(uses, key, res)
    /\ SESSION_KEYS' = KeysAfterValidate(SESSION_KEYS, key)
    /\ UNCHANGED <<no_auth, REMODASH_TOKEN, termToken, termImported, now, issued>>
    /\ UNCHANGED termVars
    /\ UNCHANGED eventVars

\* the process has been started: nothing loaded, nothing imported yet
InitAuth ==
    /\ InitTerm
    /\ no_auth = FALSE
    /\ REMODASH_TOKEN = NoToken
    /\ termToken = NoToken
    /\ termImported = FALSE
    /\ SESSION_KEYS = <<>>
    /\ now = 0
    /\ issued = <<>>
    /\ uses = [k \in KeyNames |-> 0]
    /\ lastAuth = NoAuthRecord

NextAuth ==
    \/ \E t \in Instants : Tick(t)
    \/ ToggleNoAuth
    \/ LoadAdminToken
    \/ ImportTerminal
    \/ \E key \in Keys, token \in Tokens : HttpVerify(key, token)
    \/ \E k \in KeyNames, key \in Keys, token \in Tokens : CreateSessionToken(k, key, token)
    \/ \E key \in Keys, token \in Tokens : GatewayAuthAttempt(key, token)
    \/ \E key \in Keys, token \in Tokens : CoreGatewayAuthAttempt(key, token)

SpecAuth == InitAuth /\ [][NextAuth]_vars

\* ------------------------------------------- SpecCore: core/api/terminal.py
\* the process _start ends up with on POSIX: try_spawn swallows every exception
StartProcessCore(sp) ==
    IF sp.first = "ok" THEN "running"
    ELSE IF sp.fbUsable /\ sp.fb = "ok" THEN "running"
    ELSE "None"

\* the auth block of terminal_stream_ws, up to "await websocket.accept()"
CoreConnect(sid, key, token) ==
    /\ NextObs \in ObsIds
    /\ sidCount + Cardinality({o \in DOMAIN obs : obs[o].pc = "accepting"}) < MaxSessions
    /\ LET a == GatewayAuth(no_auth, SESSION_KEYS, now, termToken, key, token)
       IN  obs' = obs @@ (NextObs :>
                [(IF a = "4003" THEN NewObs(0, "refused", 4003) ELSE NewObs(0, "accepting", 0))
                    EXCEPT !.url = sid])
    /\ UNCHANGED <<os_type, host, sessions, registry, events, fds, sidCount, createResult>>
    /\ UNCHANGED authVars
    /\ UNCHANGED eventVars

\* the termination notice is appended and fanned out: iterator, first send
NoticeBegin(s, r, f, ob) ==
    LET r1 == [r EXCEPT !.history = Append(@, Notice), !.msg = Notice, !.pc = "bcastNotice"]
        r2 == [r1 EXCEPT !.it = NewIter(r1)]
    IN  IF r2.subscribers = {}
        THEN Commit(s, [CloseSession(Exhausted(r2), "eof") EXCEPT !.pc = "exit"], CloseFd(r2, f), ob)
        ELSE SendStep(s, r2, f, ob)

\* replay loop of terminal.py: an exception ends in "finally: session.close()"
CoreReplayNext(s, r, f, ob, o) ==
    LET L == ReplayList(ob, o, r)
    IN  IF ob[o].idx < Len(L)
        THEN IF ob[o].conn = "open"
             THEN Commit(s, r, f, [Deliver(ob, o, L[ob[o].idx + 1], "replay") EXCEPT
                                      ![o].idx = @ + 1, ![o].pc = "replay"])
             ELSE Commit(s, CloseSession(r, "detach"), CloseFd(r, f), [ob EXCEPT ![o].pc = "done"])
        ELSE Commit(s, r, f, [ob EXCEPT ![o].pc = "recv"])

\* accept() returned: TerminalSession(sid, cwd) with _start, subscribers.add,
\* the optional command, and the first pass of the replay loop
CoreAccept(o, cwd, sp, command) ==
    /\ o \in DOMAIN obs
    /\ obs[o].pc = "accepting"
    /\ IF obs[o].conn # "open"
       THEN /\ obs' = [obs EXCEPT ![o].pc = "done"]
            /\ UNCHANGED <<sessions, fds, sidCount, createResult>>
       ELSE LET sid == sidCount + 1
                master == IF os_type = "Windows" THEN 0 ELSE Min(FreeFds(fds))
                proc == IF os_type = "Windows" THEN StartProcessWindows(sp) ELSE StartProcessCore(sp)
                f1 == IF os_type = "Windows" THEN fds ELSE [fds EXCEPT ![master] = sid]
                r0 == [NewSession(StartCwd(cwd), proc, master) EXCEPT
                          !.id = obs[o].url, !.subscribers = {o}]
                r1 == IF proc = "None"
                      THEN [CloseSession([r0 EXCEPT !.history = <<Diagnostic>>], "spawn")
                                EXCEPT !.pc = "none"]
                      ELSE r0
                f2 == IF proc = "None" THEN CloseFd(r0, f1) ELSE f1
                ss1 == sessions @@ (sid :> r1)
                ss2 == IF command THEN WriteInput(ss1, sid, f2) ELSE ss1
                ob1 == [obs EXCEPT ![o].sess = sid]
            IN  /\ sidCount < MaxSessions
                /\ sidCount' = sid
                /\ IF proc = "raise"
                   THEN /\ createResult' = [sid |-> sid, raised |-> TRUE]
                        /\ obs' = [obs EXCEPT ![o].pc = "done"]
                        /\ UNCHANGED <<sessions, fds>>
                   ELSE /\ createResult' = [sid |-> sid, raised |-> FALSE]
                        /\ LET L == ss2[sid].history
                           IN  /\ sessions' = ss2
                               /\ fds' = f2
                               /\ obs' = IF Len(L) > 0
                                         THEN [Deliver(ob1, o, L[1], "replay") EXCEPT
                                                  ![o].idx = 1, ![o].pc = "replay"]
                                         ELSE [ob1 EXCEPT ![o].pc = "recv"]
    /\ UNCHANGED <<os_type, host, registry, events>>
    /\ UNCHANGED authVars
    /\ UNCHANGED eventVars

\* the replay loop resumes after a send
CoreReplayResume(o) ==
    /\ o \in DOMAIN obs
    /\ obs[o].pc = "replay"
    /\ CoreReplayNext(obs[o].sess, sessions[obs[o].sess], fds, obs, o)
    /\ UNCHANGED <<os_type, host, registry, events, sidCount, createResult>>
    /\ UNCHANGED authVars
    /\ UNCHANGED eventVars

\* one turn of the receive loop of terminal.py
CoreReceive(o, m) ==
    /\ o \in DOMAIN obs
    /\ obs[o].pc = "recv"
    /\ obs[o].conn = "open"
    /\ LET s == obs[o].sess
       IN  /\ m.type = "input" => Len(sessions[s].inlog) < MaxInputs
           /\ IF m.type = "input"
              THEN sessions' = WriteInput(sessions, s, fds) /\ UNCHANGED <<obs, fds>>
              ELSE IF m.type = "resize"
              THEN /\ sessions' = Resize(sessions, s, fds,
                                         IF m.has THEN m.cols ELSE 80,
                                         IF m.has THEN m.rows ELSE 24)
                   /\ UNCHANGED <<obs, fds>>
              ELSE IF m.type = "notype"
              THEN Commit(s, CloseSession(sessions[s], "detach"), CloseFd(sessions[s], fds),
                          [obs EXCEPT ![o].pc = "done"])
              ELSE UNCHANGED <<sessions, obs, fds>>
    /\ UNCHANGED <<os_type, host, registry, events, sidCount, createResult>>
    /\ UNCHANGED authVars
    /\ UNCHANGED eventVars

\* receive_text raises WebSocketDisconnect: "finally: session.close()"
CoreDisconnected(o) ==
    /\ o \in DOMAIN obs
    /\ obs[o].pc = "recv"
    /\ obs[o].conn = "broken"
    /\ LET s == obs[o].sess
       IN  Commit(s, CloseSession(sessions[s], "detach"), CloseFd(sessions[s], fds),
                  [obs EXCEPT ![o].pc = "done"])
    /\ UNCHANGED <<os_type, host, registry, events, sidCount, createResult>>
    /\ UNCHANGED authVars
    /\ UNCHANGED eventVars

\* _read_loop resumes with the worker's result (terminal.py 125-147)
CoreReadLoopResume(s) ==
    /\ s \in DOMAIN sessions
    /\ sessions[s].pc = "readDone"
    /\ LET r == sessions[s]
       IN  IF r.data = Empty
           THEN IF r.closed
                THEN Commit(s, [CloseSession(r, "eof") EXCEPT !.pc = "exit"], CloseFd(r, fds), obs)
                ELSE NoticeBegin(s, r, fds, obs)
           ELSE LET r1 == [r EXCEPT !.history = AppendHistory(r.history, r.data),
                                    !.msg = r.data, !.data = Empty, !.pc = "bcast"]
                IN  BcastBegin(s, [r1 EXCEPT !.it = NewIter(r1)], fds, Unshare(obs, s, r.history, r.data))
    /\ UNCHANGED <<os_type, host, registry, events, sidCount, createResult>>
    /\ UNCHANGED authVars
    /\ UNCHANGED eventVars

\* _broadcast of an output chunk resumes after a send
CoreBroadcastResume(s) ==
    /\ s \in DOMAIN sessions
    /\ sessions[s].pc = "bcast"
    /\ LET r == sessions[s]
       IN  IF Cardinality(r.subscribers) # r.it.used
           THEN IF r.closed
                THEN Commit(s, [CloseSession(r, RaiseCause(r)) EXCEPT !.pc = "exit"], CloseFd(r, fds), obs)
                ELSE NoticeBegin(s, r, fds, obs)
           ELSE IF r.subscribers \ r.it.visited = {}
           THEN LET k == LoopHead(s, Exhausted(r), fds)
                IN  Commit(s, k.r, k.f, obs)
           ELSE SendStep(s, r, fds, obs)
    /\ UNCHANGED <<os_type, host, registry, events, sidCount, createResult>>
    /\ UNCHANGED authVars
    /\ UNCHANGED eventVars

\* _broadcast of the termination notice resumes after a send; it runs outside
\* the try block, so a RuntimeError ends the reader task before close()
CoreNoticeResume(s) ==
    /\ s \in DOMAIN sessions
    /\ sessions[s].pc = "bcastNotice"
    /\ LET r == sessions[s]
       IN  IF Cardinality(r.subscribers) # r.it.used
           THEN Commit(s, [r EXCEPT !.pc = "crashed"], fds, obs)
           ELSE IF r.subscribers \ r.it.visited = {}
           THEN LET r1 == Exhausted(r)
                IN  Commit(s, [CloseSession(r1, "eof") EXCEPT !.pc = "exit"], CloseFd(r1, fds), obs)
           ELSE SendStep(s, r, fds, obs)
    /\ UNCHANGED <<os_type, host, registry, events, sidCount, createResult>>
    /\ UNCHANGED authVars
    /\ UNCHANGED eventVars

\* the server is up and a session key was issued to the client at this instant
InitCore ==
    /\ os_type = "Linux"
    /\ host = [DefaultHost EXCEPT !.app = "core"]
    /\ InitSessions
    /\ no_auth = FALSE
    /\ REMODASH_TOKEN = AdminToken
    /\ termToken = NoToken
    /\ termImported = TRUE
    /\ SESSION_KEYS = ("1" :> TTL)
    /\ now = 0
    /\ issued = ("1" :> 0)
    /\ uses = [k \in KeyNames |-> 0]
    /\ lastAuth = NoAuthRecord

NextCore ==
    \/ \E sid \in SessionIds, key \in {NoKey, "1"}, token \in Tokens :
          /\ sidCount + Cardinality({o \in DOMAIN obs : obs[o].pc = "accepting"}) < SoloSessions
          /\ CoreConnect(sid, key, token)
    \/ \E o \in ObsIds, cwd \in {"None", "bad"}, sp \in SpawnInputs, command \in BOOLEAN :
          CoreAccept(o, cwd, sp, command)
    \/ \E o \in ObsIds : CoreReplayResume(o)
    \/ \E o \in ObsIds, m \in ResizeMsgs \cup OtherMsgs \cup {InputMsg} : CoreReceive(o, m)
    \/ \E o \in ObsIds : CoreDisconnected(o)
    \/ \E o \in ObsIds : ClientDisconnect(o)
    \/ \E s \in SessionIds : ReadLoopStart(s)
    \/ \E s \in SessionIds : WorkerRead(s)
    \/ \E s \in SessionIds : CoreReadLoopResume(s)
    \/ \E s \in SessionIds : CoreBroadcastResume(s)
    \/ \E s \in SessionIds : CoreNoticeResume(s)
    \/ \E s \in SessionIds : ChildExit(s)

SpecCore == InitCore /\ [][NextCore]_vars

\* ---------------------------------------- SpecPair: two sessions in server.py
\* the configured shell spawns at once
SpawnOk == [first |-> "ok", fbUsable |-> FALSE, fb |-> "error"]

\* a resize message with both fields
ResizeMsg == [type |-> "resize", has |-> TRUE, cols |-> 120, rows |-> 40]

NextPair ==
    \/ CreateSession("None", SpawnOk)
    \/ \E s \in SessionIds : ReadLoopStart(s)
    \/ \E s \in SessionIds :
          /\ WorkerRead(s)
          /\ \A p \in DOMAIN sessions' : sessions'[p].out <= PairChunks
    \/ \E s \in SessionIds : ReadLoopResume(s)
    \/ \E s \in SessionIds : BroadcastResume(s)
    \/ \E s \in SessionIds : ChildExit(s)
    \/ \E s \in SessionIds : KillSession(s)
    \/ \E s \in SessionIds : NextObs <= PairObs /\ GatewayConnect(s, NoKey, AdminToken)
    \/ \E o \in ObsIds : GatewayAccept(o)
    \/ \E o \in ObsIds : GatewayReplayResume(o)
    \/ \E o \in ObsIds, m \in {ResizeMsg, InputMsg} : GatewayReceive(o, m)
    \/ \E o \in ObsIds : GatewayDisconnected(o)
    \/ \E o \in ObsIds : ClientDisconnect(o)

SpecPair == Init /\ [][NextPair]_vars

\* ------------------------------------------------ SpecStart: _start on a host
\* the spawn attempts _start makes for this working directory
SpawnOnHost(cwd) ==
    IF os_type = "Windows" THEN SpawnInputsWindows(cwd) ELSE SpawnInputsOf(host, cwd)

SpawnOnHostCore(cwd) ==
    IF os_type = "Windows" THEN SpawnInputsWindows(cwd) ELSE SpawnInputsOfCore(host, cwd)

\* create_session(cwd=dir) of server.py on this host
StartServer(dir) ==
    CreateSession(CwdOf(host, dir), SpawnOnHost(StartCwd(CwdOf(host, dir))))

\* a client with a valid key connects to /{sid} of terminal.py
StartConnect(sid) == CoreConnect(sid, "1", NoToken)

\* TerminalSession(sid, cwd=dir) in the handler of terminal.py on this host,
\* for a connection without a command
StartCore(o, dir) ==
    CoreAccept(o, CwdOf(host, dir), SpawnOnHostCore(StartCwd(CwdOf(host, dir))), FALSE)

\* any platform, any settings, any state of the shell binaries
InitStart ==
    /\ os_type \in {"Linux", "Windows"}
    /\ host \in Hosts
    /\ InitSessions
    /\ no_auth = FALSE
    /\ REMODASH_TOKEN = AdminToken
    /\ termToken = NoToken
    /\ termImported = TRUE
    /\ SESSION_KEYS = ("1" :> TTL)
    /\ now = 0
    /\ issued = ("1" :> 0)
    /\ uses = [k \in KeyNames |-> 0]
    /\ lastAuth = NoAuthRecord

NextStart ==
    \/ \E dir \in Dirs \cup {"None"} : host.app = "server" /\ StartServer(dir)
    \/ \E sid \in SessionIds : host.app = "core" /\ StartConnect(sid)
    \/ \E o \in ObsIds, dir \in Dirs \cup {"None"} : StartCore(o, dir)

SpecStart == InitStart /\ [][NextStart]_vars

\* ------------------------------- SpecLive: one running session, fair steps
\* the worker thread hands back what the shell wrote, at most PairChunks chunks
LiveRead(s) ==
    /\ WorkerRead(s)
    /\ \A p \in DOMAIN sessions' : sessions'[p].out <= PairChunks

NextLive ==
    \/ sidCount < SoloSessions /\ CreateSession("None", SpawnOk)
    \/ \E s \in SessionIds : ReadLoopStart(s)
    \/ \E s \in SessionIds : LiveRead(s)
    \/ \E s \in SessionIds : ReadLoopResume(s)
    \/ \E s \in SessionIds : BroadcastResume(s)
    \/ \E s \in SessionIds : GatewayConnect(s, NoKey, AdminToken)
    \/ \E o \in ObsIds : GatewayAccept(o)
    \/ \E o \in ObsIds : GatewayReplayResume(o)
    \/ \E o \in ObsIds : GatewayReceive(o, InputMsg)
    \/ \E o \in ObsIds : GatewayDisconnected(o)
    \/ \E o \in ObsIds : ClientDisconnect(o)

\* the event loop gives every ready coroutine its turn and the worker pool
\* finishes every read that can finish: asyncio schedules callbacks first in,
\* first out, and run_in_executor hands each read to a thread of its own
FairLive ==
    /\ \A s \in SessionIds :
          /\ WF_vars(ReadLoopStart(s))
          /\ WF_vars(LiveRead(s))
          /\ WF_vars(ReadLoopResume(s))
          /\ WF_vars(BroadcastResume(s))
    /\ \A o \in ObsIds :
          /\ WF_vars(GatewayAccept(o))
          /\ WF_vars(GatewayReplayResume(o))
          /\ WF_vars(GatewayDisconnected(o))

SpecLive == Init /\ [][NextLive]_vars /\ FairLive

\* ------------------- SpecGeom: resize on both platforms, both applications
AppHosts == {DefaultHost, [DefaultHost EXCEPT !.app = "core"]}

InitGeom ==
    /\ os_type \in {"Linux", "Windows"}
    /\ host \in AppHosts
    /\ InitSessions
    /\ no_auth = FALSE
    /\ REMODASH_TOKEN = AdminToken
    /\ termToken = NoToken
    /\ termImported = TRUE
    /\ SESSION_KEYS = ("1" :> TTL)
    /\ now = 0
    /\ issued = ("1" :> 0)
    /\ uses = [k \in KeyNames |-> 0]
    /\ lastAuth = NoAuthRecord

NextGeom ==
    \/ \E sp \in SpawnInputs :
          host.app = "server" /\ sidCount < SoloSessions /\ CreateSession("None", sp)
    \/ \E s \in SessionIds : host.app = "server" /\ KillSession(s)
    \/ \E s \in SessionIds :
          host.app = "server" /\ NextObs <= PairObs /\ GatewayConnect(s, NoKey, AdminToken)
    \/ \E o \in ObsIds : host.app = "server" /\ GatewayAccept(o)
    \/ \E o \in ObsIds : host.app = "server" /\ GatewayReplayResume(o)
    \/ \E o \in ObsIds, m \in ResizeMsgs : host.app = "server" /\ GatewayReceive(o, m)
    \/ \E o \in ObsIds : host.app = "server" /\ GatewayDisconnected(o)
    \/ \E s \in SessionIds : host.app = "server" /\ ReadLoopResume(s)
    \/ \E s \in SessionIds : host.app = "server" /\ BroadcastResume(s)
    \/ \E sid \in SessionIds :
          host.app = "core" /\ NextObs <= PairObs /\ CoreConnect(sid, "1", NoToken)
    \/ \E o \in ObsIds, sp \in SpawnInputs : host.app = "core" /\ CoreAccept(o, "None", sp, FALSE)
    \/ \E o \in ObsIds : host.app = "core" /\ CoreReplayResume(o)
    \/ \E o \in ObsIds, m \in ResizeMsgs : host.app = "core" /\ CoreReceive(o, m)
    \/ \E o \in ObsIds : host.app = "core" /\ CoreDisconnected(o)
    \/ \E s \in SessionIds : host.app = "core" /\ CoreReadLoopResume(s)
    \/ \E s \in SessionIds : host.app = "core" /\ CoreBroadcastResume(s)
    \/ \E s \in SessionIds : host.app = "core" /\ CoreNoticeResume(s)
    \/ \E s \in SessionIds : ReadLoopStart(s)
    \/ \E s \in SessionIds : LiveRead(s)
    \/ \E s \in SessionIds : ChildExit(s)
    \/ \E o \in ObsIds : ClientDisconnect(o)

SpecGeom == InitGeom /\ [][NextGeom]_vars

\* ------------------------------ SpecEvents: the events endpoint (server.py)
NewEventObs(pc, code) ==
    [pc |-> pc,                 \* accepting, init, recv, refused, done
     code |-> code,             \* close code of a refused connection, 0 = none
     conn |-> "open",           \* transport: open, broken
     since |-> 0,               \* history: events created before the socket was added
     recv |-> <<>>]             \* history: the messages the client was sent

NextEventObs == Cardinality(DOMAIN eventObs) + 1

\* {"type": "init", "data": list_sessions()}
InitMsg == [type |-> "init", id |-> 0]

\* broadcast_event entered: to_remove is empty and the set iterator is
\* created, remembering the size of event_subscribers
NewEventTask ==
    [pc |-> "sending",          \* sending, done, crashed
     at |-> 0,                  \* the socket whose send the task is suspended in
     visited |-> {}, used |-> Cardinality(event_subscribers), rm |-> {}]

\* next() on the set iterator and what follows: RuntimeError when the set
\* changed size, the discards when the loop is over, else the send to the
\* next socket in the set's order (an unchanged set is walked in one order)
EventStep(tk, msg) ==
    IF Cardinality(event_subscribers) # tk.used
    THEN [tk |-> [tk EXCEPT !.pc = "crashed"], ob |-> eventObs, subs |-> event_subscribers]
    ELSE IF event_subscribers \ tk.visited = {}
    THEN [tk |-> [tk EXCEPT !.pc = "done"], ob |-> eventObs, subs |-> event_subscribers \ tk.rm]
    ELSE LET e == Min(event_subscribers \ tk.visited)
         IN  IF eventObs[e].conn = "open"
             THEN [tk |-> [tk EXCEPT !.visited = @ \cup {e}, !.at = e],
                   ob |-> [eventObs EXCEPT ![e].recv = Append(@, msg)],
                   subs |-> event_subscribers]
             ELSE [tk |-> [tk EXCEPT !.visited = @ \cup {e}, !.rm = @ \cup {e}, !.at = e],
                   ob |-> eventObs, subs |-> event_subscribers]

\* the next task made by asyncio.create_task(self.broadcast_event(...)) gets
\* its first turn; the event loop starts tasks in the order they were created
TaskStart ==
    /\ Len(eventTasks) < Len(events)
    /\ LET k == EventStep(NewEventTask, events[Len(eventTasks) + 1])
       IN  /\ eventTasks' = Append(eventTasks, k.tk)
           /\ eventObs' = k.ob
           /\ event_subscribers' = k.subs
    /\ UNCHANGED termVars
    /\ UNCHANGED authVars

\* broadcast_event resumes after a send.  The sends on one socket complete in
\* the order they were issued: a task does not resume ahead of an earlier
\* task that is suspended in a send to the same socket
TaskResume(i) ==
    /\ i \in 1..Len(eventTasks)
    /\ eventTasks[i].pc = "sending"
    /\ \A j \in 1..(i - 1) :
          eventTasks[j].pc = "sending" => eventTasks[j].at # eventTasks[i].at
    /\ LET k == EventStep(eventTasks[i], events[i])
       IN  /\ eventTasks' = [eventTasks EXCEPT ![i] = k.tk]
           /\ eventObs' = k.ob
           /\ event_subscribers' = k.subs
    /\ UNCHANGED termVars
    /\ UNCHANGED authVars

\* terminal_events_ws: the auth block, up to subscribe_events
EventsConnect(key, token) ==
    /\ NextEventObs \in ObsIds
    /\ LET a == GatewayAuth(no_auth, SESSION_KEYS, now, REMODASH_TOKEN, key, token)
       IN  eventObs' = eventObs @@ (NextEventObs :>
                (IF a = "4003" THEN NewEventObs("refused", 4003) ELSE NewEventObs("accepting", 0)))
    /\ UNCHANGED <<event_subscribers, eventTasks>>
    /\ UNCHANGED termVars
    /\ UNCHANGED authVars

\* subscribe_events: accept() returned, the socket is added and the init
\* message is sent; an accept() that raises is outside the try
EventsAccept(e) ==
    /\ e \in DOMAIN eventObs
    /\ eventObs[e].pc = "accepting"
    /\ IF eventObs[e].conn # "open"
       THEN /\ eventObs' = [eventObs EXCEPT ![e].pc = "done"]
            /\ UNCHANGED event_subscribers
       ELSE /\ event_subscribers' = event_subscribers \cup {e}
            /\ eventObs' = [eventObs EXCEPT ![e].pc = "init", ![e].since = Len(events),
                                            ![e].recv = Append(@, InitMsg)]
    /\ UNCHANGED eventTasks
    /\ UNCHANGED termVars
    /\ UNCHANGED authVars

\* the send of the init message returned: the handler waits in receive_text
EventsInitSent(e) ==
    /\ e \in DOMAIN eventObs
    /\ eventObs[e].pc = "init"
    /\ eventObs' = [eventObs EXCEPT ![e].pc = "recv"]
    /\ UNCHANGED <<event_subscribers, eventTasks>>
    /\ UNCHANGED termVars
    /\ UNCHANGED authVars

\* receive_text raises: finally discards the socket
EventsDisconnected(e) ==
    /\ e \in DOMAIN eventObs
    /\ eventObs[e].pc = "recv"
    /\ eventObs[e].conn = "broken"
    /\ event_subscribers' = event_subscribers \ {e}
    /\ eventObs' = [eventObs EXCEPT ![e].pc = "done"]
    /\ UNCHANGED eventTasks
    /\ UNCHANGED termVars
    /\ UNCHANGED authVars

\* the client of the events endpoint goes away
EventsClientDisconnect(e) ==
    /\ e \in DOMAIN eventObs
    /\ eventObs[e].pc \in {"accepting", "init", "recv"}
    /\ eventObs[e].conn = "open"
    /\ eventObs' = [eventObs EXCEPT ![e].conn = "broken"]
    /\ UNCHANGED <<event_subscribers, eventTasks>>
    /\ UNCHANGED termVars
    /\ UNCHANGED authVars

NextEvents ==
    \/ sidCount < SoloSessions /\ CreateSession("None", SpawnOk)
    \/ \E s \in SessionIds : KillSession(s)
    \/ \E token \in Tokens : EventsConnect(NoKey, token)
    \/ \E e \in ObsIds : EventsAccept(e)
    \/ \E e \in ObsIds : EventsInitSent(e)
    \/ \E e \in ObsIds : EventsDisconnected(e)
    \/ \E e \in ObsIds : EventsClientDisconnect(e)
    \/ TaskStart
    \/ \E i \in 1..(2 * MaxSessions) : TaskResume(i)

SpecEvents == Init /\ [][NextEvents]_vars

\* ==================================================================== claims
\* output messages with chunk c that o was sent by _broadcast
LiveCount(o, c) ==
    Cardinality({i \in 1..Len(obs[o].recv) : obs[o].recv[i] = [c |-> c, via |-> "live"]})

Received(o, c) == \E i \in 1..Len(obs[o].recv) : obs[o].recv[i].c = c

\* C1: every observer receives the output chunks of a channel in the order the
\* channel produced them, replayed history and live broadcasts taken together
C1_ProductionOrder ==
    \A o \in DOMAIN obs :
        \A i, j \in 1..Len(obs[o].recv) :
            (/\ i < j
             /\ obs[o].recv[i].c.kind = "out"
             /\ obs[o].recv[j].c.kind = "out"
             /\ obs[o].recv[i].c.p = obs[o].recv[j].c.p)
            => obs[o].recv[i].c.n <= obs[o].recv[j].c.n

\* C2: a fan-out that ran to its end with every send succeeding and no attach
\* or detach meanwhile delivered the chunk exactly once to each observer that
\* was attached when it began
C2_ExactlyOnce ==
    \A s \in DOMAIN sessions :
        LET r == sessions[s]
        IN  (r.it.done /\ ~r.it.churn /\ r.it.rm = {})
            => \A o \in r.it.start : LiveCount(o, r.msg) = 1

C2_Witness ==
    \E s \in DOMAIN sessions :
        LET r == sessions[s]
        IN  /\ r.it.done /\ ~r.it.churn /\ r.it.rm = {}
            /\ r.msg.kind = "out"
            /\ Cardinality(r.it.start) >= 2
            /\ \A o \in r.it.start : LiveCount(o, r.msg) = 1

\* C3: history never holds more than the cap, whichever append produced it,
\* and an append to a full history drops exactly the oldest entry
C3_HistoryCapped ==
    [][\A s \in DOMAIN sessions' :
          LET h1 == sessions'[s].history
          IN  /\ Len(h1) <= HistoryCap
              /\ (s \in DOMAIN sessions /\ h1 # sessions[s].history)
                 => LET h == sessions[s].history
                    IN  /\ Len(h1) > 0
                        /\ SubSeq(h1, 1, Len(h1) - 1) = IF Len(h) = HistoryCap THEN Tail(h) ELSE h]_vars

\* C4: when the receive loop of an observer ends, the observer leaves the
\* observer set and nothing else changes, and no session is ever closed
\* because an observer left
C4_DetachOnly ==
    [][/\ \A o \in DOMAIN obs :
            (obs[o].pc = "recv" /\ obs'[o].pc = "done")
            => LET s == obs[o].sess
               IN  /\ sessions'[s].subscribers = sessions[s].subscribers \ {o}
                   /\ sessions'[s].closed = sessions[s].closed
                   /\ sessions'[s].process = sessions[s].process
       /\ \A s \in DOMAIN sessions' : sessions'[s].cause # "left"]_vars

KillStep(s) ==
    /\ Len(events') = Len(events) + 1
    /\ events'[Len(events')] = [type |-> "kill", id |-> s]

Killed(ev, s) == \E i \in 1..Len(ev) : ev[i] = [type |-> "kill", id |-> s]

KeyInside(key) == key \in DOMAIN issued /\ now < issued[key] + TTL
KeyNotAfter(key) == key \in DOMAIN issued /\ now <= issued[key] + TTL
TokenOk(token) == REMODASH_TOKEN # NoToken /\ token = REMODASH_TOKEN
Refused(res) == res \in {"4003", "401"}

\* C6: the session endpoint accepts a connection exactly when the no-auth flag
\* is set, or the key is valid, or the token is the loaded admin token; any
\* other connection is closed with 4003
C6_GatewayAccepts ==
    lastAuth.op \in {"gateway", "core"}
    => /\ (no_auth \/ KeyInside(lastAuth.key) \/ TokenOk(lastAuth.token))
          => ~Refused(lastAuth.result)
       /\ ~Refused(lastAuth.result)
          => (no_auth \/ KeyNotAfter(lastAuth.key) \/ TokenOk(lastAuth.token))
       /\ Refused(lastAuth.result) => lastAuth.result = "4003"

\* C7: a key issued at t passes every validation before t+TTL, passes none
\* after t+TTL, and a key never issued passes none, at the HTTP dependency and
\* at the session endpoints alike
C7_KeyWindow ==
    lastAuth.op \in {"http", "gateway", "core"}
    => LET k == lastAuth.key
       IN  /\ (k \in DOMAIN issued /\ now < issued[k] + TTL)
              => lastAuth.result \in ByKey \cup {"NO_AUTH"}
           /\ (k \in DOMAIN issued /\ now > issued[k] + TTL)
              => lastAuth.result \notin ByKey
           /\ k \notin DOMAIN issued => lastAuth.result \notin ByKey

C7_Witness ==
    /\ lastAuth.op = "gateway"
    /\ lastAuth.key \in DOMAIN issued
    /\ now = issued[lastAuth.key] + TTL - 1
    /\ lastAuth.result = "KEY"

\* C8: a validation, passed or failed, leaves SESSION_KEYS as it was, and a
\* key that is in the store and not expired passes however often it was used
C8_ValidateKeepsStore ==
    [][lastAuth'.op \in {"http", "gateway", "core"}
       => /\ SESSION_KEYS' = SESSION_KEYS
          /\ (/\ ~no_auth
              /\ lastAuth'.key \in DOMAIN SESSION_KEYS
              /\ now < SESSION_KEYS[lastAuth'.key])
             => lastAuth'.result \in ByKey]_vars

C8_Witness ==
    \E k \in KeyNames :
        /\ uses[k] >= 2
        /\ lastAuth.key = k
        /\ lastAuth.result \in ByKey
        /\ k \in DOMAIN SESSION_KEYS

\* C9: in a fan-out to several observers in which a send failed, no exception leaves _broadcast and
\* the session is not closed by it; at its end the failing observer is out of
\* the observer set and every other observer still attached got the chunk once
C9_FailureIsolated ==
    \A s \in DOMAIN sessions :
        LET r == sessions[s]
        IN  (r.it.rm # {} /\ Cardinality(r.it.start) >= 2)
            => /\ r.cause \notin {"left", "joined"}
               /\ r.pc # "crashed"
               /\ r.it.done
                  => /\ r.it.rm \cap r.subscribers = {}
                     /\ \A o \in (r.it.start \cap r.subscribers) \ r.it.rm :
                           LiveCount(o, r.msg) = 1

\* C10: creating a session never raises, and a session none of whose shell
\* candidates spawned is closed and holds exactly the diagnostic line
C10_SpawnFailureContained ==
    /\ ~createResult.raised
    /\ \A s \in DOMAIN sessions :
          sessions[s].process = "None"
          => (sessions[s].closed /\ sessions[s].history = <<Diagnostic>>)

\* the configured shell can be spawned in a directory that exists
ShellSpawns == os_type = "Windows" \/ Popen(host, Shell(host), "None") = "ok"

\* C11: a session asked for in a directory that does not exist or that the
\* filesystem policy forbids is created without an error, with cwd unset and
\* a live shell, whatever the filesystem mode
C11_CwdFallback ==
    ShellSpawns
    => /\ ~createResult.raised
       /\ \A s \in DOMAIN sessions :
             /\ sessions[s].cwd \notin {"missing", "bad"}
             /\ sessions[s].process = "running"

\* the number of termination notices in a history
Notices(h) == Cardinality({i \in 1..Len(h) : h[i] = Notice})

\* the read loop runs close() on a session that is closed already
SecondClose(s) ==
    /\ s \in DOMAIN sessions
    /\ sessions[s].closed
    /\ sessions[s].pc # "exit"
    /\ sessions'[s].pc = "exit"

\* C12: a close() on a session that is already closed raises nothing and
\* changes nothing: closed stays true, the process and the history are as
\* they were, no history ever holds a second notice, and no descriptor is
\* released by the second call
C12_CloseIdempotent ==
    [][\A s \in SessionIds :
          /\ SecondClose(s)
             => /\ sessions'[s].closed
                /\ sessions'[s].process = sessions[s].process
                /\ sessions'[s].history = sessions[s].history
                /\ fds' = fds
          /\ s \in DOMAIN sessions' => Notices(sessions'[s].history) <= 1]_vars

\* the number of events of this type emitted for session s
EventCount(ev, type, s) == Cardinality({i \in 1..Len(ev) : ev[i] = [type |-> type, id |-> s]})

\* C13: kill_session takes the id out of the map, closes the session and
\* emits one kill event; from the kill onward the id is never in the map
\* again, a connection to it is refused (4004 once authenticated), and no
\* observer is added to the session
C13_KillShutsOut ==
    [][\A s \in SessionIds :
          /\ KillStep(s)
             => /\ s \notin SeqToSet(registry')
                /\ sessions'[s].closed
                /\ EventCount(events', "kill", s) = 1
          /\ Killed(events, s)
             => /\ s \notin SeqToSet(registry')
                /\ EventCount(events', "kill", s) = 1
                /\ sessions'[s].subscribers \subseteq sessions[s].subscribers
                /\ \A o \in DOMAIN obs' \ DOMAIN obs :
                      obs'[o].url = s => (obs'[o].pc = "refused" /\ obs'[o].code \in {4003, 4004})]_vars

\* C14: no two sessions have the same id, and every session create_session
\* has put into the map is constructed under the id it was registered with,
\* has its channel allocated and has had exactly one create event emitted
C14_ServerIds ==
    /\ \A s1, s2 \in DOMAIN sessions : s1 # s2 => sessions[s1].id # sessions[s2].id
    /\ \A s \in SeqToSet(registry) :
          /\ s \in DOMAIN sessions
          /\ sessions[s].id = s
          /\ os_type # "Windows" => sessions[s].master_fd # 0
          /\ EventCount(events, "create", s) = 1

\* C15: a connection that passes authentication and names an id that is not
\* in the registry is refused with 4004, not with the auth-failure code 4003;
\* the refusal constructs no session and opens no descriptor, and a refused
\* connection is never attached to a session
C15_UnknownIdRefused ==
    [][/\ \A o \in DOMAIN obs' \ DOMAIN obs :
            (obs'[o].url \notin SeqToSet(registry) /\ obs'[o].code # 4003)
            => /\ obs'[o].pc = "refused"
               /\ obs'[o].code = 4004
               /\ sessions' = sessions
               /\ fds' = fds
       /\ \A o \in DOMAIN obs :
            obs[o].pc = "refused"
            => /\ obs'[o] = obs[o]
               /\ \A s \in DOMAIN sessions' : o \notin sessions'[s].subscribers]_vars

\* C16: input sent to a session is written to that session's own channel
\* only, and the history of a session holds only chunks that were read from
\* its own channel
C16_SessionsIsolated ==
    \A s \in DOMAIN sessions :
        /\ \A i \in 1..Len(sessions[s].inlog) : sessions[s].inlog[i] = s
        /\ \A i \in 1..Len(sessions[s].history) :
              sessions[s].history[i].kind = "out" => sessions[s].history[i].p = s

\* the chunk the worker handed back for s is c, and o is attached to s with
\* its transport open, while the session is running
Produced(s, o, c) ==
    /\ s \in DOMAIN sessions
    /\ o \in DOMAIN obs
    /\ sessions[s].pc = "readDone"
    /\ sessions[s].data = c
    /\ ~sessions[s].closed
    /\ o \in sessions[s].subscribers
    /\ obs[o].conn = "open"

\* o has left: its transport broke or its handler ended
Gone(o) == obs[o].conn # "open" \/ obs[o].pc = "done"

\* o was sent c, or left before it could be
Settled(o, c) == IF o \in DOMAIN obs THEN Received(o, c) \/ Gone(o) ELSE FALSE

\* C17: under fair scheduling of the worker read and the sends, every chunk a
\* running session's channel produces while an observer is attached is
\* eventually delivered to that observer as an output message, unless the
\* observer leaves first
C17_EventuallyDelivered ==
    \A s \in SessionIds, o \in ObsIds, n \in 1..PairChunks :
        Produced(s, o, Chunk(s, n)) ~> Settled(o, Chunk(s, n))

\* the geometry a resize message asks for: msg.get("cols", 80), msg.get("rows", 24)
Asked(m) == <<IF m.has THEN m.cols ELSE 80, IF m.has THEN m.rows ELSE 24>>

\* C18: after resize(c, r) the session's stored geometry is exactly (c, r),
\* whether the session is running or closed, on a pty or on pipes, and whether
\* or not the size could be forwarded to the channel
C18_ResizeStores ==
    [][\A o \in DOMAIN obs, m \in ResizeMsgs :
          (GatewayReceive(o, m) \/ CoreReceive(o, m)) =>
              <<sessions'[obs[o].sess].cols, sessions'[obs[o].sess].rows>> = Asked(m)]_vars

\* a closed session holds the geometry of a resize that its channel never took
C18_Witness ==
    \E s \in DOMAIN sessions :
        /\ sessions[s].closed
        /\ <<sessions[s].cols, sessions[s].rows>> = <<120, 40>>
        /\ sessions[s].winsz # <<120, 40>>

\* C19: a session whose read loop met end of stream while it was not closed
\* has the "[Process terminated]" notice as the last entry of its history,
\* and every observer attached to it with an open transport was sent the
\* notice, before closed was set; the history of a session closed by an
\* explicit kill holds no notice
C19_NoticeOnEof ==
    \A s \in DOMAIN sessions :
        /\ (sessions[s].closed /\ sessions[s].cause = "eof") =>
              /\ Len(sessions[s].history) > 0
              /\ sessions[s].history[Len(sessions[s].history)] = Notice
              /\ \A o \in sessions[s].subscribers :
                    (obs[o].pc = "recv" /\ obs[o].conn = "open") => Received(o, Notice)
        /\ sessions[s].cause = "kill" => Notices(sessions[s].history) = 0

\* the shell the environment names: os.environ.get("SHELL", "/bin/bash")
EnvShell(h) == IF h.SHELL # "None" THEN h.SHELL ELSE "/bin/bash"

\* the candidates of the resolution order: configured, environment, fallbacks
Candidates(h) ==
    ({h.terminal_shell} \ {"None"}) \cup {EnvShell(h)} \cup {Fallbacks[i] : i \in 1..Len(Fallbacks)}

\* some candidate spawns in this working directory
Spawnable(h, cwd) == \E c \in Candidates(h) : Popen(h, c, cwd) = "ok"

\* C20: on the pty platform, whenever at least one of the candidates
\* (configured shell, environment shell, each fallback) can be spawned, the
\* spawner does not raise and the session gets a live process, whatever the
\* earlier candidates failed with.  An exception leaves _start only when the
\* working directory is there, so the candidates of the raising attempt are
\* judged in it.
C20_SpawnsIfAnyCan ==
    os_type = "Linux" =>
        /\ createResult.raised => ~Spawnable(host, "None")
        /\ \A s \in DOMAIN sessions :
              Spawnable(host, sessions[s].cwd) => sessions[s].process = "running"

\* C21: after every inbound resize message the session's cols and rows are
\* positive integers: an absent or invalid dimension (zero, negative) is
\* replaced by its default, 80 columns and 24 rows
C21_GeometryPositive ==
    \A s \in DOMAIN sessions : sessions[s].cols > 0 /\ sessions[s].rows > 0

\* C22: an inbound message that is neither input nor resize, with any type
\* value or with no type field at all, is ignored: the session is left as it
\* was, the receive loop keeps running and the sender stays attached
C22_UnknownIgnored ==
    [][\A o \in DOMAIN obs, m \in OtherMsgs :
          (GatewayReceive(o, m) \/ CoreReceive(o, m)) =>
              /\ sessions' = sessions
              /\ obs'[o].pc = "recv"
              /\ o \in sessions'[obs[o].sess].subscribers]_vars

\* C23: after every issuance at time now the key store holds the new key with
\* expiry now + 60 s, holds no entry whose expiry is earlier than now and
\* still holds every entry that had not expired; a step that issues no key,
\* the passage of time among them, removes no entry
C23_IssueSweeps ==
    [][/\ \A k \in KeyNames, key \in Keys, token \in Tokens :
             CreateSessionToken(k, key, token) =>
                 /\ k \in DOMAIN SESSION_KEYS'
                 /\ SESSION_KEYS'[k] = now + TTL
                 /\ \A x \in DOMAIN SESSION_KEYS' : ~(SESSION_KEYS'[x] < now)
                 /\ \A x \in DOMAIN SESSION_KEYS :
                       ~(SESSION_KEYS[x] < now) =>
                           IF x \in DOMAIN SESSION_KEYS'
                           THEN SESSION_KEYS'[x] = SESSION_KEYS[x]
                           ELSE FALSE
       /\ issued' = issued => SESSION_KEYS' = SESSION_KEYS]_vars

\* an issuance has just swept a key that expired while the clock moved on
C23_Witness ==
    /\ lastAuth.op = "issue"
    /\ lastAuth.key \in DOMAIN SESSION_KEYS
    /\ \E x \in DOMAIN issued : x \notin DOMAIN SESSION_KEYS /\ issued[x] + TTL < now

\* C24: a session whose read loop has seen end of stream and closed it is
\* destroyed without a kill: it is no longer an entry of the registry that
\* get_session returns, list_sessions lists and an observer can attach to
C24_EofDestroys ==
    \A s \in DOMAIN sessions :
        (sessions[s].closed /\ sessions[s].pc = "exit" /\ sessions[s].cause = "eof") =>
            s \notin SeqToSet(registry)

\* C25: each session has at most one read outstanding, and it is against the
\* session's own channel: no reader task ever reads a channel that belongs
\* to another session, so whatever a worker read of s hands back was
\* produced by the channel of s
C25_OneReader ==
    [][\A s \in DOMAIN sessions :
          (WorkerRead(s) /\ sessions'[s].pc = "readDone" /\ sessions'[s].data # Empty) =>
              sessions'[s].data.p = s]_vars

\* C26: an observer attaching or detaching while the broadcast is suspended
\* in a send does not abort the fan-out, end the read loop or close the
\* session: no session is closed by the change of its observer set, and once
\* such a fan-out is over every observer that was attached when it began and
\* stayed attached has been sent the chunk
C26_ChurnTolerated ==
    \A s \in DOMAIN sessions :
        /\ sessions[s].cause \notin {"left", "joined"}
        /\ (sessions[s].it.churn /\ ~InFanOut(sessions[s])) =>
              \A o \in sessions[s].it.start \cap sessions[s].subscribers :
                  obs[o].conn = "open" => Received(o, sessions[s].msg)

\* the step releases descriptor n, which designated the pty of a session
Released(n) == fds[n] \in DOMAIN sessions /\ fds'[n] = 0

\* the step tells the pty of session p a new window size
Resized(p) == p \in DOMAIN sessions /\ sessions'[p].winsz # sessions[p].winsz

\* C27: a session acts only on a descriptor it owns: a descriptor is released
\* only by the close() of the session whose pty it designates, and a pty is
\* told a window size only by a resize() of its own session; a closed
\* session's later close() or resize() never reaches a number the OS has
\* reissued to another live session
C27_OwnDescriptorOnly ==
    [][/\ \A n \in FdNums : Released(n) => sessions'[fds[n]].closed
       /\ \A p \in SessionIds :
             Resized(p) => sessions'[p].winsz = <<sessions'[p].cols, sessions'[p].rows>>]_vars

\* the output messages carrying chunk c that o was sent, replayed or live
Copies(o, c) == Cardinality({i \in 1..Len(obs[o].recv) : obs[o].recv[i].c = c})

\* C28: an observer receives each chunk at most once: a chunk appended to
\* history while the replay loop of the observer is still sending is not
\* delivered to it both by the replay and by the live broadcast
C28_AtMostOnce ==
    \A o \in DOMAIN obs : \A i \in 1..Len(obs[o].recv) : Copies(o, obs[o].recv[i].c) <= 1

\* the messages of a receive log that were sent by _broadcast
LiveMsgs(q) == SelectSeq(q, LAMBDA e : e.via = "live")

\* C29: once closed is true the session's history is never modified again
\* and nothing more is broadcast to its observers, also when a read that was
\* outstanding at the close() completes with a chunk
C29_ClosedIsFinal ==
    [][\A s \in DOMAIN sessions :
          sessions[s].closed =>
              /\ sessions'[s].history = sessions[s].history
              /\ \A o \in DOMAIN obs :
                    obs[o].sess = s => LiveMsgs(obs'[o].recv) = LiveMsgs(obs[o].recv)]_vars

\* the place of an event in the order the registry operations were performed
Pos(ev) == CHOOSE i \in 1..Len(events) : events[i] = ev

\* the create and kill events a client of the events endpoint was sent
EventsOf(e) == SelectSeq(eventObs[e].recv, LAMBDA m : m.type # "init")

\* e was added before the event was created and has stayed attached
Attached(e, ev) ==
    /\ eventObs[e].pc = "recv"
    /\ eventObs[e].conn = "open"
    /\ e \in event_subscribers
    /\ eventObs[e].since < Pos(ev)

\* C30: an event observer that stays attached is sent the create event of a
\* session before its kill event, and the events of different sessions in
\* the order the registry operations were performed
C30_EventsInOrder ==
    \A e \in DOMAIN eventObs :
        LET q == EventsOf(e)
        IN  /\ \A i, j \in 1..Len(q) : i < j => Pos(q[i]) < Pos(q[j])
            /\ \A j \in 1..Len(q) :
                  (q[j].type = "kill" /\ Attached(e, [type |-> "create", id |-> q[j].id])) =>
                      \E i \in 1..(j - 1) : q[i] = [type |-> "create", id |-> q[j].id]

====
